---- MODULE Spec2Model ----
(***************************************************************************)
(* Fleet Monitor CDK application (infrastructure/bin/app.ts together with  *)
(* the FleetMonitorNetworkStack class).                                    *)
(*                                                                         *)
(* The model covers                                                        *)
(*   - the two lookup-with-default resolvers getVpcConfig and              *)
(*     getLogRetention, with JavaScript's property lookup (own properties, *)
(*     then Object.prototype) and the truthiness test of `||`;             *)
(*   - the `environments` table, computed from process.env;                *)
(*   - the composition pass of app.ts: the twelve stack constructions and  *)
(*     the twelve addDependency calls, in source order;                    *)
(*   - the deployment of the composed stacks in any order that respects    *)
(*     the declared dependencies.                                          *)
(***************************************************************************)
EXTENDS Integers, Sequences, FiniteSets, TLC

VARIABLES
    processEnv,   \* process.env: variable name -> JavaScript value
    environments, \* the environments table of app.ts, once evaluated
    pc,           \* index of the next statement of app.ts to execute
    stacks,       \* construct id -> the stack constructed under that id
    order,        \* construct ids in construction order
    deps,         \* declared dependencies, <<dependent, dependency>>
    deployed,     \* construct ids whose deployment has completed
    resolved      \* result of the last resolver calls made for an arbitrary identifier

vars == <<processEnv, environments, pc, stacks, order, deps, deployed, resolved>>

----------------------------------------------------------------------------
(* JavaScript values.  Every value is a record with a `type` field so that *)
(* values of different kinds can be compared.                              *)

Undefined == [type |-> "undefined"]

Str(s) == [type |-> "string", s |-> s]

Num(n) == [type |-> "number", n |-> n]

\* A member inherited from Object.prototype (a function, or the prototype
\* object itself for __proto__).
Builtin(name) == [type |-> "builtin", name |-> name]

\* ToBoolean as applied by the `||` operator.
Truthy(v) ==
    CASE v.type = "undefined" -> FALSE
      [] v.type = "string"    -> v.s # ""
      [] v.type = "number"    -> v.n # 0
      [] OTHER                -> TRUE

\* a || b
Or(a, b) == IF Truthy(a) THEN a ELSE b

\* Names every object literal inherits from Object.prototype.
ObjectPrototypeKeys ==
    {"constructor", "toString", "toLocaleString", "valueOf", "hasOwnProperty",
     "isPrototypeOf", "propertyIsEnumerable", "__proto__"}

\* obj[key] for an object literal: own property, else inherited member,
\* else undefined.
Get(obj, key) ==
    IF key \in DOMAIN obj THEN obj[key]
    ELSE IF key \in ObjectPrototypeKeys THEN Builtin(key)
    ELSE Undefined

----------------------------------------------------------------------------
(* cdk.aws_logs.RetentionDays: a numeric enum whose members are day counts *)

ONE_WEEK == Num(7)

TWO_WEEKS == Num(14)

SIX_MONTHS == Num(180)

(* cdk.RemovalPolicy *)
RETAIN == "retain"

DESTROY == "destroy"

----------------------------------------------------------------------------
(* Address blocks are the CIDR strings of the source, kept as the sequence *)
(* of their characters so that they can be parsed.                         *)

Cidr_10_0 == <<"1","0",".","0",".","0",".","0","/","1","6">>

Cidr_10_1 == <<"1","0",".","1",".","0",".","0","/","1","6">>

Cidr_10_2 == <<"1","0",".","2",".","0",".","0","/","1","6">>

\* Variant of the table: prod sized below dev (one gateway fewer, a /24).
configs_WeakProd ==
    [dev     |-> [type |-> "object", maxAzs |-> 2, cidr |-> Cidr_10_0, natGateways |-> 1],
     staging |-> [type |-> "object", maxAzs |-> 2, cidr |-> Cidr_10_1, natGateways |-> 1],
     prod    |-> [type |-> "object", maxAzs |-> 3,
                  cidr |-> <<"1","0",".","2",".","0",".","0","/","2","4">>,
                  natGateways |-> 0]]

\* Variant of the table: the staging row keeps the address block of the dev
\* row it was copied from.
configs_SharedBlock ==
    [dev     |-> [type |-> "object", maxAzs |-> 2, cidr |-> Cidr_10_0, natGateways |-> 1],
     staging |-> [type |-> "object", maxAzs |-> 2, cidr |-> Cidr_10_0, natGateways |-> 1],
     prod    |-> [type |-> "object", maxAzs |-> 3, cidr |-> Cidr_10_2, natGateways |-> 2]]

\* The configs table of getVpcConfig.
configs ==
    [dev     |-> [type |-> "object", maxAzs |-> 2, cidr |-> Cidr_10_0, natGateways |-> 1],
     staging |-> [type |-> "object", maxAzs |-> 2, cidr |-> Cidr_10_1, natGateways |-> 1],
     prod    |-> [type |-> "object", maxAzs |-> 3, cidr |-> Cidr_10_2, natGateways |-> 2]]

\* The retentions table of getLogRetention.
retentions ==
    [dev     |-> ONE_WEEK,
     staging |-> TWO_WEEKS,
     prod    |-> SIX_MONTHS]

\* Variant: the operands of `||` swapped, configs.dev || configs[env].
getVpcConfig_DefaultFirst(env) == Or(configs.dev, Get(configs, env))

\* return configs[env] || configs.dev
getVpcConfig(env) == Or(Get(configs, env), configs.dev)

\* return retentions[env] || retentions.dev
getLogRetention(env) == Or(Get(retentions, env), retentions.dev)

\* props.environmentName === 'prod' ? RETAIN : DESTROY
removalPolicy(env) == IF env = "prod" THEN RETAIN ELSE DESTROY

----------------------------------------------------------------------------
(* The environments table and the tags of app.ts.                          *)

\* The variables of process.env the model distinguishes.  app.ts reads the
\* first three; AWS_REGION stands for any variable it does not read.
EnvVars == {"CDK_DEFAULT_ACCOUNT", "AWS_ACCOUNT_ID", "CDK_DEFAULT_REGION", "AWS_REGION"}

\* The value a variable has when it is set to a non-empty string.
EnvValue(v) ==
    CASE v = "CDK_DEFAULT_ACCOUNT" -> Str("111111111111")
      [] v = "AWS_ACCOUNT_ID"      -> Str("222222222222")
      [] v = "CDK_DEFAULT_REGION"  -> Str("eu-west-1")
      [] v = "AWS_REGION"          -> Str("ap-south-1")

\* A variable is unset, set to the empty string, or set to its value.
EnvChoices(v) == {Undefined, Str(""), EnvValue(v)}

\* Variant: the region consults AWS_REGION before the hard-coded default.
EnvironmentEntry_RegionFallback(penv) ==
    [account |-> Or(penv["CDK_DEFAULT_ACCOUNT"], penv["AWS_ACCOUNT_ID"]),
     region  |-> Or(Or(penv["CDK_DEFAULT_REGION"], penv["AWS_REGION"]), Str("us-east-1"))]

\* One entry of the environments table:
\*   account: process.env.CDK_DEFAULT_ACCOUNT || process.env.AWS_ACCOUNT_ID
\*   region:  process.env.CDK_DEFAULT_REGION || 'us-east-1'
EnvironmentEntry(penv) ==
    [account |-> Or(penv["CDK_DEFAULT_ACCOUNT"], penv["AWS_ACCOUNT_ID"]),
     region  |-> Or(penv["CDK_DEFAULT_REGION"], Str("us-east-1"))]

\* const environments = { dev: ..., staging: ..., prod: ... }
EvalEnvironments(penv) ==
    [dev     |-> EnvironmentEntry(penv),
     staging |-> EnvironmentEntry(penv),
     prod    |-> EnvironmentEntry(penv)]

commonTags ==
    [Project    |-> "Fleet Monitor",
     Owner      |-> "Diego Cruz",
     Purpose    |-> "DevSecOps Portfolio Demonstration",
     Repository |-> "https://github.com/diegocruzo/fleet-monitor-devops",
     ManagedBy  |-> "AWS CDK"]

\* { ...a, ...b }: the keys of b override those of a.
Spread(a, b) == b @@ a

devTags == Spread(commonTags, [Environment |-> "Development", CostCenter |-> "Development"])

stagingTags == Spread(commonTags, [Environment |-> "Staging", CostCenter |-> "Testing"])

\* Variant: the prod tags without the Backup marker.
prodTags_NoBackup ==
    Spread(commonTags, [Environment |-> "Production", CostCenter |-> "Production"])

prodTags ==
    Spread(commonTags,
           [Environment |-> "Production", CostCenter |-> "Production", Backup |-> "Required"])

----------------------------------------------------------------------------
(* The statements of app.ts, in source order.                              *)

\* No stack variable is read.
None == "none"

\* The value of a handle a stack does not take or does not produce.
NoHandle == [owner |-> "none"]

New(kind, id, tier, vpcOf, sgOf, stackName, tags) ==
    [op |-> "new", kind |-> kind, id |-> id, envKey |-> tier, environmentName |-> tier,
     vpcOf |-> vpcOf, sgOf |-> sgOf, stackName |-> stackName, tags |-> tags]

AddDep(stack, target) == [op |-> "addDependency", stack |-> stack, target |-> target]

DevProgram ==
    << New("network", "FleetMonitorNetworkDev", "dev", None, None,
           "fleet-monitor-network-dev", devTags),
       New("security", "FleetMonitorSecurityDev", "dev", "FleetMonitorNetworkDev", None,
           "fleet-monitor-security-dev", devTags),
       New("monitoring", "FleetMonitorMonitoringDev", "dev", None, None,
           "fleet-monitor-monitoring-dev", devTags),
       New("main", "FleetMonitorDev", "dev", "FleetMonitorNetworkDev",
           "FleetMonitorSecurityDev", "fleet-monitor-dev", devTags),
       AddDep("FleetMonitorSecurityDev", "FleetMonitorNetworkDev"),
       AddDep("FleetMonitorDev", "FleetMonitorNetworkDev"),
       AddDep("FleetMonitorDev", "FleetMonitorSecurityDev"),
       AddDep("FleetMonitorMonitoringDev", "FleetMonitorDev") >>

\* Variant: the staging main stack still takes the handles of the dev block
\* it was copied from.
StagingProgram_DevHandles ==
    << New("network", "FleetMonitorNetworkStaging", "staging", None, None,
           "fleet-monitor-network-staging", stagingTags),
       New("security", "FleetMonitorSecurityStaging", "staging",
           "FleetMonitorNetworkStaging", None, "fleet-monitor-security-staging", stagingTags),
       New("monitoring", "FleetMonitorMonitoringStaging", "staging", None, None,
           "fleet-monitor-monitoring-staging", stagingTags),
       New("main", "FleetMonitorStaging", "staging", "FleetMonitorNetworkDev",
           "FleetMonitorSecurityDev", "fleet-monitor-staging", stagingTags),
       AddDep("FleetMonitorSecurityStaging", "FleetMonitorNetworkStaging"),
       AddDep("FleetMonitorStaging", "FleetMonitorNetworkStaging"),
       AddDep("FleetMonitorStaging", "FleetMonitorSecurityStaging"),
       AddDep("FleetMonitorMonitoringStaging", "FleetMonitorStaging") >>

StagingProgram ==
    << New("network", "FleetMonitorNetworkStaging", "staging", None, None,
           "fleet-monitor-network-staging", stagingTags),
       New("security", "FleetMonitorSecurityStaging", "staging",
           "FleetMonitorNetworkStaging", None, "fleet-monitor-security-staging", stagingTags),
       New("monitoring", "FleetMonitorMonitoringStaging", "staging", None, None,
           "fleet-monitor-monitoring-staging", stagingTags),
       New("main", "FleetMonitorStaging", "staging", "FleetMonitorNetworkStaging",
           "FleetMonitorSecurityStaging", "fleet-monitor-staging", stagingTags),
       AddDep("FleetMonitorSecurityStaging", "FleetMonitorNetworkStaging"),
       AddDep("FleetMonitorStaging", "FleetMonitorNetworkStaging"),
       AddDep("FleetMonitorStaging", "FleetMonitorSecurityStaging"),
       AddDep("FleetMonitorMonitoringStaging", "FleetMonitorStaging") >>

ProdProgram ==
    << New("network", "FleetMonitorNetworkProd", "prod", None, None,
           "fleet-monitor-network-prod", prodTags),
       New("security", "FleetMonitorSecurityProd", "prod", "FleetMonitorNetworkProd", None,
           "fleet-monitor-security-prod", prodTags),
       New("monitoring", "FleetMonitorMonitoringProd", "prod", None, None,
           "fleet-monitor-monitoring-prod", prodTags),
       New("main", "FleetMonitorProd", "prod", "FleetMonitorNetworkProd",
           "FleetMonitorSecurityProd", "fleet-monitor-prod", prodTags),
       AddDep("FleetMonitorSecurityProd", "FleetMonitorNetworkProd"),
       AddDep("FleetMonitorProd", "FleetMonitorNetworkProd"),
       AddDep("FleetMonitorProd", "FleetMonitorSecurityProd"),
       AddDep("FleetMonitorMonitoringProd", "FleetMonitorProd") >>

\* The whole script: the environments table first, then the three tiers.
Program == <<[op |-> "environments"]>> \o DevProgram \o StagingProgram \o ProdProgram

Done == Len(Program) + 1

----------------------------------------------------------------------------
(* The inputs of the resolvers: the three tiers, and identifiers that are  *)
(* not tiers (empty, misspelt, differently cased, names of members of      *)
(* Object.prototype).                                                      *)

Tiers == {"dev", "staging", "prod"}

Identifiers ==
    Tiers \cup {"", "typo-env", "Prod", "DEV", "constructor", "toString", "__proto__"}

NotResolved == [called |-> FALSE]

NoStacks == [id \in {} |-> None]

NoEnvironments == [evaluated |-> FALSE]

Init ==
    /\ processEnv \in [EnvVars -> UNION {EnvChoices(v) : v \in EnvVars}]
    /\ \A v \in EnvVars : processEnv[v] \in EnvChoices(v)
    /\ environments = NoEnvironments
    /\ pc = 1
    /\ stacks = NoStacks
    /\ order = <<>>
    /\ deps = {}
    /\ deployed = {}
    /\ resolved = NotResolved

----------------------------------------------------------------------------
(* The composition pass.                                                   *)

\* obj.field of a record that may lack the field.
Field(obj, f) == IF f \in DOMAIN obj THEN obj[f] ELSE Undefined

\* The handle a props entry reads from an earlier stack (devNetworkStack.vpc,
\* devSecurityStack.securityGroup), or NoHandle when the props have no such entry.
ReadHandle(from, field) == IF from = None THEN NoHandle ELSE stacks[from][field]

\* The vpc a network stack creates from the configuration of its tier.
NewVpc(id, environmentName) ==
    LET vpcConfig == getVpcConfig(environmentName)
    IN  [owner       |-> id,
         maxAzs      |-> Field(vpcConfig, "maxAzs"),
         cidr        |-> Field(vpcConfig, "cidr"),
         natGateways |-> Field(vpcConfig, "natGateways")]

\* The flow-log group a network stack creates.
NewFlowLogGroup(environmentName) ==
    [retention     |-> getLogRetention(environmentName),
     removalPolicy |-> removalPolicy(environmentName)]

\* The stack a `new ...Stack(app, id, props)` statement constructs.
NewStack(st) ==
    [kind            |-> st.kind,
     env             |-> environments[st.envKey],
     environmentName |-> st.environmentName,
     stackName       |-> st.stackName,
     tags            |-> IF st.kind = "network"
                         THEN Spread(st.tags, [StackType |-> "Network"])
                         ELSE st.tags,
     vpcProp         |-> ReadHandle(st.vpcOf, "vpc"),
     sgProp          |-> ReadHandle(st.sgOf, "securityGroup"),
     vpc             |-> IF st.kind = "network"
                         THEN NewVpc(st.id, st.environmentName) ELSE NoHandle,
     securityGroup   |-> IF st.kind = "security" THEN [owner |-> st.id] ELSE NoHandle,
     flowLogGroup    |-> IF st.kind = "network"
                         THEN NewFlowLogGroup(st.environmentName) ELSE NoHandle]

\* const environments = {...}
EvalEnvironmentsStep ==
    /\ pc < Done
    /\ Program[pc].op = "environments"
    /\ environments' = EvalEnvironments(processEnv)
    /\ pc' = pc + 1
    /\ UNCHANGED <<processEnv, stacks, order, deps, deployed, resolved>>

\* const xStack = new ...Stack(app, id, props).  A stack variable read before
\* its declaration has run throws, which ends the pass.
Construct ==
    /\ pc < Done
    /\ Program[pc].op = "new"
    /\ \A from \in {Program[pc].vpcOf, Program[pc].sgOf} \ {None} : from \in DOMAIN stacks
    /\ Program[pc].id \notin DOMAIN stacks
    /\ stacks' = (Program[pc].id :> NewStack(Program[pc])) @@ stacks
    /\ order' = Append(order, Program[pc].id)
    /\ pc' = pc + 1
    /\ UNCHANGED <<processEnv, environments, deps, deployed, resolved>>

\* Variant: the dependency recorded the wrong way round.
AddDependency_Reversed ==
    /\ pc < Done
    /\ Program[pc].op = "addDependency"
    /\ {Program[pc].stack, Program[pc].target} \subseteq DOMAIN stacks
    /\ deps' = deps \cup {<<Program[pc].target, Program[pc].stack>>}
    /\ pc' = pc + 1
    /\ UNCHANGED <<processEnv, environments, stacks, order, deployed, resolved>>

\* Variant: the dependency of a monitoring stack on its main stack is not
\* recorded.
AddDependency_MonitoringOmitted ==
    /\ pc < Done
    /\ Program[pc].op = "addDependency"
    /\ {Program[pc].stack, Program[pc].target} \subseteq DOMAIN stacks
    /\ deps' = IF stacks[Program[pc].stack].kind = "monitoring"
               THEN deps
               ELSE deps \cup {<<Program[pc].stack, Program[pc].target>>}
    /\ pc' = pc + 1
    /\ UNCHANGED <<processEnv, environments, stacks, order, deployed, resolved>>

\* xStack.addDependency(yStack)
AddDependency ==
    /\ pc < Done
    /\ Program[pc].op = "addDependency"
    /\ {Program[pc].stack, Program[pc].target} \subseteq DOMAIN stacks
    /\ deps' = deps \cup {<<Program[pc].stack, Program[pc].target>>}
    /\ pc' = pc + 1
    /\ UNCHANGED <<processEnv, environments, stacks, order, deployed, resolved>>

----------------------------------------------------------------------------
(* Deployment, performed by the deployment tool outside app.ts: once the   *)
(* pass has completed, a stack is deployed only after every stack it was   *)
(* declared to depend on (the meaning of addDependency).                   *)

DependenciesOf(u) == {d \in DOMAIN stacks : <<u, d>> \in deps}

Deploy(u) ==
    /\ pc = Done
    /\ u \in DOMAIN stacks
    /\ u \notin deployed
    /\ DependenciesOf(u) \subseteq deployed
    /\ deployed' = deployed \cup {u}
    /\ UNCHANGED <<processEnv, environments, pc, stacks, order, deps, resolved>>

----------------------------------------------------------------------------
(* The resolvers applied to an arbitrary identifier, as the constructor of *)
(* FleetMonitorNetworkStack applies them to props.environmentName.         *)

Resolve(id) ==
    /\ resolved' = [called        |-> TRUE,
                    env           |-> id,
                    vpcConfig     |-> getVpcConfig(id),
                    retention     |-> getLogRetention(id),
                    removalPolicy |-> removalPolicy(id)]
    /\ UNCHANGED <<processEnv, environments, pc, stacks, order, deps, deployed>>

StackIds == {Program[i].id : i \in {j \in 1..Len(Program) : Program[j].op = "new"}}

Next ==
    \/ EvalEnvironmentsStep
    \/ Construct
    \/ AddDependency
    \/ \E u \in StackIds : Deploy(u)

\* The composition pass followed by deployment.
Spec == Init /\ [][Next]_vars

\* The script runs to completion, and the deployment tool deploys every stack
\* whose dependencies are deployed.
FairSpec ==
    /\ Spec
    /\ WF_vars(EvalEnvironmentsStep \/ Construct \/ AddDependency)
    /\ \A u \in StackIds : WF_vars(Deploy(u))

NextResolver == \E id \in Identifiers : Resolve(id)

\* The resolvers called with every identifier, in any order.
ResolverSpec == Init /\ [][NextResolver]_vars

----------------------------------------------------------------------------
(* Reading an address block: 'a.b.c.d/p' denotes the 2^(32-p) addresses    *)
(* that share their first p bits with a.b.c.d.                             *)

DigitVal(c) ==
    CASE c = "0" -> 0 [] c = "1" -> 1 [] c = "2" -> 2 [] c = "3" -> 3 [] c = "4" -> 4
      [] c = "5" -> 5 [] c = "6" -> 6 [] c = "7" -> 7 [] c = "8" -> 8 [] c = "9" -> 9

RECURSIVE ParseNat(_, _)
ParseNat(s, acc) ==
    IF s = <<>> THEN acc ELSE ParseNat(Tail(s), acc * 10 + DigitVal(Head(s)))

RECURSIVE Split(_, _)
Split(s, sep) ==
    IF \A i \in 1..Len(s) : s[i] # sep
    THEN <<s>>
    ELSE LET i == CHOOSE k \in 1..Len(s) :
                      s[k] = sep /\ \A j \in 1..(k - 1) : s[j] # sep
         IN  <<SubSeq(s, 1, i - 1)>> \o Split(SubSeq(s, i + 1, Len(s)), sep)

CidrPrefix(cidr) == ParseNat(Split(cidr, "/")[2], 0)

CidrAddress(cidr) ==
    LET octets == Split(Split(cidr, "/")[1], ".")
    IN  ((ParseNat(octets[1], 0) * 256 + ParseNat(octets[2], 0)) * 256
            + ParseNat(octets[3], 0)) * 256 + ParseNat(octets[4], 0)

\* Number of addresses of the block.
CidrCapacity(cidr) == 2 ^ (32 - CidrPrefix(cidr))

CidrFirst(cidr) == CidrAddress(cidr) - (CidrAddress(cidr) % CidrCapacity(cidr))

CidrLast(cidr) == CidrFirst(cidr) + CidrCapacity(cidr) - 1

CidrOverlap(c1, c2) == CidrFirst(c1) <= CidrLast(c2) /\ CidrFirst(c2) <= CidrLast(c1)

----------------------------------------------------------------------------
(* Properties of the resolvers (checked under ResolverSpec).               *)

\* C1: for every identifier other than 'dev', 'staging' and 'prod',
\* getVpcConfig returns the record {maxAzs: 2, cidr: '10.0.0.0/16',
\* natGateways: 1} that getVpcConfig('dev') returns, and getLogRetention
\* returns ONE_WEEK, the value getLogRetention('dev') returns.
C1_UnrecognizedResolvesToDev ==
    (resolved.called /\ resolved.env \notin Tiers) =>
        /\ resolved.vpcConfig = getVpcConfig("dev")
        /\ resolved.vpcConfig =
               [type |-> "object", maxAzs |-> 2, cidr |-> Cidr_10_0, natGateways |-> 1]
        /\ resolved.retention = getLogRetention("dev")
        /\ resolved.retention = ONE_WEEK

\* The rows of the tier table as the specification lists them.
ExpectedRow(tier) ==
    CASE tier = "dev" ->
           [maxAzs |-> 2, cidr |-> Cidr_10_0, natGateways |-> 1, retention |-> Num(7)]
      [] tier = "staging" ->
           [maxAzs |-> 2, cidr |-> Cidr_10_1, natGateways |-> 1, retention |-> Num(14)]
      [] tier = "prod" ->
           [maxAzs |-> 3, cidr |-> Cidr_10_2, natGateways |-> 2, retention |-> Num(180)]

\* C2: for each recognized tier the two resolvers return exactly that tier's
\* row (zones, address block, gateways, retention), never another tier's row
\* nor the default in place of its own.
C2_RecognizedTierRow ==
    (resolved.called /\ resolved.env \in Tiers) =>
        /\ resolved.vpcConfig.type = "object"
        /\ resolved.vpcConfig.maxAzs = ExpectedRow(resolved.env).maxAzs
        /\ resolved.vpcConfig.cidr = ExpectedRow(resolved.env).cidr
        /\ resolved.vpcConfig.natGateways = ExpectedRow(resolved.env).natGateways
        /\ resolved.retention = ExpectedRow(resolved.env).retention
        /\ \A other \in Tiers \ {resolved.env} :
               /\ resolved.vpcConfig.cidr # ExpectedRow(other).cidr
               /\ resolved.retention # ExpectedRow(other).retention

C2_Witness ==
    /\ resolved.called
    /\ resolved.env = "staging"
    /\ resolved.vpcConfig.cidr = Cidr_10_1
    /\ resolved.retention = TWO_WEEKS

\* C5: for every identifier, getVpcConfig returns one of the three records of
\* its table (positive zone count, an address block, non-negative gateway
\* count) and getLogRetention returns one of the three retention values.
C5_ResolversStayInTable ==
    resolved.called =>
        /\ resolved.vpcConfig \in {configs[t] : t \in Tiers}
        /\ resolved.vpcConfig.type = "object"
        /\ Field(resolved.vpcConfig, "maxAzs") \in Nat \ {0}
        /\ Field(resolved.vpcConfig, "natGateways") \in Nat
        /\ resolved.retention \in {ONE_WEEK, TWO_WEEKS, SIX_MONTHS}

----------------------------------------------------------------------------
(* Properties of the composition pass and of deployment.                   *)

Constructed == DOMAIN stacks

TierOf(u) == stacks[u].environmentName

KindOf(u) == stacks[u].kind

\* Position of a constructed stack in the construction order.
Pos(u) == CHOOSE i \in 1..Len(order) : order[i] = u

\* The four dependency edges of a tier, <<dependent kind, dependency kind>>.
TierEdges ==
    {<<"security", "network">>, <<"main", "network">>,
     <<"main", "security">>, <<"monitoring", "main">>}

\* C3: the declared dependency edges are, within each of dev, staging and
\* prod, exactly security -> network, main -> network, main -> security and
\* monitoring -> main; no other edge is ever declared and none joins two tiers.
C3_ExactDependencyEdges ==
    /\ \A e \in deps :
           /\ {e[1], e[2]} \subseteq Constructed
           /\ TierOf(e[1]) = TierOf(e[2])
           /\ <<KindOf(e[1]), KindOf(e[2])>> \in TierEdges
    /\ pc = Done =>
           \A t \in Tiers : \A k \in TierEdges :
               \E a, b \in Constructed :
                   /\ TierOf(a) = t /\ TierOf(b) = t
                   /\ KindOf(a) = k[1] /\ KindOf(b) = k[2]
                   /\ <<a, b>> \in deps
    /\ pc = Done => Cardinality(deps) = 12

C3_Witness == pc = Done /\ Cardinality(deps) = 12 /\ Cardinality(Constructed) = 12

\* The stacks reachable from u along one or more declared dependencies.
RECURSIVE ReachFrom(_, _)
ReachFrom(frontier, seen) ==
    LET next == {d \in StackIds : \E u \in frontier : <<u, d>> \in deps} \ seen
    IN  IF next = {} THEN seen ELSE ReachFrom(next, seen \cup next)

Acyclic == \A u \in StackIds : u \notin ReachFrom({u}, {})

Rank(kind) ==
    CASE kind = "network" -> 1 [] kind = "security" -> 2
      [] kind = "main" -> 3 [] kind = "monitoring" -> 4

\* A stack completes only after the stacks of its tier that precede it in the
\* order network, security, main, monitoring.
DeployedInTierOrder ==
    \A u \in deployed' \ deployed :
        \A w \in Constructed :
            (TierOf(w) = TierOf(u) /\ Rank(KindOf(w)) < Rank(KindOf(u))) => w \in deployed

\* C4: the declared dependencies are acyclic; in every deployment order that
\* respects them each tier's stacks complete in the order network, security,
\* main, monitoring; and under fair scheduling all twelve stacks are
\* eventually deployed.
C4_DeploymentOrder ==
    /\ []Acyclic
    /\ [][DeployedInTierOrder]_vars
    /\ <>(Cardinality(deployed) = 12 /\ deployed = StackIds)

\* Tiers interleave: staging is complete and prod half-way while dev, composed
\* first, has not started.
C4_Witness ==
    /\ \A u \in Constructed :
           u \in deployed <=>
               \/ TierOf(u) = "staging"
               \/ TierOf(u) = "prod" /\ KindOf(u) \in {"network", "security"}
    /\ Cardinality(deployed) = 6

EnvironmentsEvaluated == environments # NoEnvironments

IsSet(v) == v.type = "string" /\ v.s # ""

\* C6 as stated: account and region each fall back from a primary variable
\* to a second variable when the primary is unset, and the region falls
\* back to 'us-east-1' only when neither of its two variables is set.
C6_RegionHasSecondVariable ==
    EnvironmentsEvaluated =>
        \A t \in Tiers :
            /\ IsSet(processEnv["CDK_DEFAULT_ACCOUNT"]) =>
                   environments[t].account = processEnv["CDK_DEFAULT_ACCOUNT"]
            /\ ~IsSet(processEnv["CDK_DEFAULT_ACCOUNT"]) =>
                   environments[t].account = processEnv["AWS_ACCOUNT_ID"]
            /\ IsSet(processEnv["CDK_DEFAULT_REGION"]) =>
                   environments[t].region = processEnv["CDK_DEFAULT_REGION"]
            /\ \E second \in EnvVars \ {"CDK_DEFAULT_ACCOUNT", "AWS_ACCOUNT_ID",
                                        "CDK_DEFAULT_REGION"} :
                   /\ (~IsSet(processEnv["CDK_DEFAULT_REGION"]) /\ IsSet(processEnv[second]))
                          => environments[t].region = processEnv[second]
                   /\ (~IsSet(processEnv["CDK_DEFAULT_REGION"]) /\ ~IsSet(processEnv[second]))
                          => environments[t].region = Str("us-east-1")

\* C6 (amended): the account of every tier is CDK_DEFAULT_ACCOUNT, or
\* AWS_ACCOUNT_ID when CDK_DEFAULT_ACCOUNT is unset or empty; the region is
\* CDK_DEFAULT_REGION, or 'us-east-1' when CDK_DEFAULT_REGION is unset or
\* empty, whatever any other variable holds.
C6_RegionSingleVariable ==
    EnvironmentsEvaluated =>
        \A t \in Tiers :
            /\ IsSet(processEnv["CDK_DEFAULT_ACCOUNT"]) =>
                   environments[t].account = processEnv["CDK_DEFAULT_ACCOUNT"]
            /\ ~IsSet(processEnv["CDK_DEFAULT_ACCOUNT"]) =>
                   environments[t].account = processEnv["AWS_ACCOUNT_ID"]
            /\ IsSet(processEnv["CDK_DEFAULT_REGION"]) =>
                   environments[t].region = processEnv["CDK_DEFAULT_REGION"]
            /\ ~IsSet(processEnv["CDK_DEFAULT_REGION"]) =>
                   environments[t].region = Str("us-east-1")

\* The region falls back to the default although another variable is set.
C6_Witness ==
    /\ EnvironmentsEvaluated
    /\ ~IsSet(processEnv["CDK_DEFAULT_REGION"])
    /\ IsSet(processEnv["AWS_REGION"])
    /\ ~IsSet(processEnv["CDK_DEFAULT_ACCOUNT"])
    /\ environments["prod"].account = Str("222222222222")
    /\ environments["prod"].region = Str("us-east-1")

Networks == {u \in Constructed : KindOf(u) = "network"}

\* C7: the prod network has at least as many NAT gateways as the dev network
\* and an address block of at least as many addresses.
C7_ProdAtLeastDev ==
    \A p, d \in Networks :
        (TierOf(p) = "prod" /\ TierOf(d) = "dev") =>
            /\ stacks[p].vpc.natGateways >= stacks[d].vpc.natGateways
            /\ CidrCapacity(stacks[p].vpc.cidr) >= CidrCapacity(stacks[d].vpc.cidr)

C7_Witness ==
    \E p, d \in Networks :
        /\ TierOf(p) = "prod" /\ TierOf(d) = "dev"
        /\ stacks[p].vpc.natGateways = 2 /\ stacks[d].vpc.natGateways = 1
        /\ CidrCapacity(stacks[p].vpc.cidr) = 65536

\* C8: the address blocks of any two distinct network stacks the composition
\* constructs share no address.
C8_AddressBlocksDisjoint ==
    \A a, b \in Networks :
        a # b => ~CidrOverlap(stacks[a].vpc.cidr, stacks[b].vpc.cidr)

C8_Witness ==
    /\ Cardinality(Networks) = 3
    /\ \E a, b \in Networks : a # b /\ CidrFirst(stacks[a].vpc.cidr) = 10 * 16777216 + 2 * 65536

ExpectedTierTags(tier) ==
    CASE tier = "dev"     -> [Environment |-> "Development", CostCenter |-> "Development"]
      [] tier = "staging" -> [Environment |-> "Staging", CostCenter |-> "Testing"]
      [] tier = "prod"    -> [Environment |-> "Production", CostCenter |-> "Production"]

HasTag(u, k, v) == k \in DOMAIN stacks[u].tags /\ stacks[u].tags[k] = v

\* C9: every stack carries the five common tags with their fixed values and
\* its tier's Environment and CostCenter tags, and carries Backup = 'Required'
\* if and only if it belongs to the prod tier.
C9_Tags ==
    \A u \in Constructed :
        /\ HasTag(u, "Project", "Fleet Monitor")
        /\ HasTag(u, "Owner", "Diego Cruz")
        /\ HasTag(u, "Purpose", "DevSecOps Portfolio Demonstration")
        /\ HasTag(u, "Repository", "https://github.com/diegocruzo/fleet-monitor-devops")
        /\ HasTag(u, "ManagedBy", "AWS CDK")
        /\ HasTag(u, "Environment", ExpectedTierTags(TierOf(u)).Environment)
        /\ HasTag(u, "CostCenter", ExpectedTierTags(TierOf(u)).CostCenter)
        /\ HasTag(u, "Backup", "Required") <=> TierOf(u) = "prod"
        /\ "Backup" \in DOMAIN stacks[u].tags <=> TierOf(u) = "prod"

C9_Witness ==
    /\ Cardinality(Constructed) = 12
    /\ \E u \in Constructed : KindOf(u) = "monitoring" /\ HasTag(u, "Backup", "Required")
    /\ \E u \in Constructed : KindOf(u) = "main" /\ HasTag(u, "CostCenter", "Testing")

\* A handle taken as constructor input comes from a stack of the given kind,
\* of the same tier, constructed earlier, on which u has a declared dependency
\* once the pass has completed.
HandleFrom(u, handle, kind) ==
    /\ handle # NoHandle
    /\ handle.owner \in Constructed
    /\ KindOf(handle.owner) = kind
    /\ TierOf(handle.owner) = TierOf(u)
    /\ Pos(handle.owner) < Pos(u)
    /\ pc = Done => <<u, handle.owner>> \in deps

\* C10: the network handle taken by security and by main and the
\* security-group handle taken by main were produced by a stack of the same
\* tier constructed earlier, on which the consumer has a declared dependency;
\* monitoring takes no handle and is constructed before the main stack it is
\* declared to depend on.
C10_HandlesFromEarlierSameTier ==
    \A u \in Constructed :
        /\ KindOf(u) = "network" => stacks[u].vpcProp = NoHandle /\ stacks[u].sgProp = NoHandle
        /\ KindOf(u) = "security" =>
               HandleFrom(u, stacks[u].vpcProp, "network") /\ stacks[u].sgProp = NoHandle
        /\ KindOf(u) = "main" =>
               /\ HandleFrom(u, stacks[u].vpcProp, "network")
               /\ HandleFrom(u, stacks[u].sgProp, "security")
        /\ KindOf(u) = "monitoring" =>
               /\ stacks[u].vpcProp = NoHandle /\ stacks[u].sgProp = NoHandle
               /\ \A m \in Constructed :
                      (KindOf(m) = "main" /\ TierOf(m) = TierOf(u)) => Pos(u) < Pos(m)
               /\ pc = Done =>
                      \E m \in Constructed :
                          /\ KindOf(m) = "main" /\ TierOf(m) = TierOf(u)
                          /\ <<u, m>> \in deps

C10_Witness ==
    /\ pc = Done
    /\ \E u, m \in Constructed :
           /\ KindOf(u) = "monitoring" /\ KindOf(m) = "main" /\ TierOf(u) = TierOf(m)
           /\ Pos(u) < Pos(m) /\ <<u, m>> \in deps
           /\ stacks[m].sgProp.owner \in Constructed
           /\ stacks[m].vpcProp.owner \in Networks

----------------------------------------------------------------------------
(* Removal policy of the flow-log group (checked under ResolverSpec).       *)

\* The flow-log group is retained exactly for 'prod', and retained exactly
\* when its retention is SIX_MONTHS.
RemovalPolicyFollowsProd ==
    resolved.called =>
        /\ resolved.removalPolicy = RETAIN <=> resolved.env = "prod"
        /\ resolved.removalPolicy = DESTROY <=> resolved.env # "prod"
        /\ resolved.removalPolicy = RETAIN <=> resolved.retention = SIX_MONTHS

\* C11: the flow-log group is retained on removal if and only if the
\* identifier is exactly 'prod' and destroyed for every other identifier; the
\* removal policy is RETAIN exactly when getLogRetention returned SIX_MONTHS;
\* and an unrecognized identifier gets the dev tier's treatment in both, the
\* dev removal policy and the dev retention.
C11_RemovalPolicyAgreesWithRetention ==
    resolved.called =>
        /\ resolved.removalPolicy = RETAIN <=> resolved.env = "prod"
        /\ resolved.removalPolicy = DESTROY <=> resolved.env # "prod"
        /\ resolved.removalPolicy = RETAIN <=> resolved.retention = SIX_MONTHS
        /\ resolved.env \notin Tiers =>
               /\ resolved.removalPolicy = removalPolicy("dev")
               /\ resolved.retention = getLogRetention("dev")

====
